---- MODULE Spec2Model ----
(***************************************************************************)
(* Model of the outgoing OAuth2 client-credentials middleware              *)
(* (outgoingoauth2cc.go): construction (New, fromFlexibleValue) and        *)
(* request handling (ServeHTTP) with its token cache.                      *)
(*                                                                         *)
(* Strings are sequences of byte values (Go strings are byte sequences),   *)
(* so that prefix tests, splitting, escaping, header canonicalisation and  *)
(* base64 are computed as the code computes them.                          *)
(***************************************************************************)
EXTENDS Integers, Sequences, FiniteSets, TLC

----------------------------------------------------------------------------
(* String literals of the source, as byte sequences.                       *)

\* ""
EmptyStr == << >>

\* "~"
Tilde == <<126>>

\* "~base64~"
S_base64Prefix == <<126, 98, 97, 115, 101, 54, 52, 126>>

\* "base64"
S_base64 == <<98, 97, 115, 101, 54, 52>>

\* "file"
S_file == <<102, 105, 108, 101>>

\* "env"
S_env == <<101, 110, 118>>

\* "direct"
S_direct == <<100, 105, 114, 101, 99, 116>>

\* "Authorization"
S_Authorization == <<65, 117, 116, 104, 111, 114, 105, 122, 97, 116, 105, 111, 110>>

\* "Content-Type"
S_ContentType == <<67, 111, 110, 116, 101, 110, 116, 45, 84, 121, 112, 101>>

\* "Accept"
S_Accept == <<65, 99, 99, 101, 112, 116>>

\* "application/x-www-form-urlencoded", abbreviated to "form"
S_formMime == <<102, 111, 114, 109>>

\* "*/*"
S_anyMime == <<42, 47, 42>>

\* "Basic "
S_Basic == <<66, 97, 115, 105, 99, 32>>

\* "Bearer "
S_Bearer == <<66, 101, 97, 114, 101, 114, 32>>

----------------------------------------------------------------------------
(* Library functions the code calls, computed on byte sequences.           *)

\* strings.HasPrefix
HasPrefix(s, p) == Len(s) >= Len(p) /\ SubSeq(s, 1, Len(p)) = p

\* index of the first byte of s equal to the one-byte separator, 0 if none
IndexByte(s, sep) ==
    IF \E i \in 1..Len(s) : s[i] = sep[1]
    THEN CHOOSE i \in 1..Len(s) : s[i] = sep[1] /\ \A j \in 1..(i-1) : s[j] # sep[1]
    ELSE 0

\* strings.SplitN(s, sep, n) for a one-byte sep and n >= 1:
\* at most n parts, the last part being the unsplit remainder
RECURSIVE SplitN(_, _, _)
SplitN(s, sep, n) ==
    IF n <= 1 \/ IndexByte(s, sep) = 0
    THEN <<s>>
    ELSE <<SubSeq(s, 1, IndexByte(s, sep) - 1)>>
         \o SplitN(SubSeq(s, IndexByte(s, sep) + 1, Len(s)), sep, n - 1)

IsSpace(c) == c \in {9, 10, 11, 12, 13, 32}

\* strings.TrimSpace
RECURSIVE TrimLeft(_)
TrimLeft(s) == IF Len(s) > 0 /\ IsSpace(s[1]) THEN TrimLeft(Tail(s)) ELSE s

RECURSIVE TrimRight(_)
TrimRight(s) ==
    IF Len(s) > 0 /\ IsSpace(s[Len(s)]) THEN TrimRight(SubSeq(s, 1, Len(s) - 1)) ELSE s

TrimSpace(s) == TrimRight(TrimLeft(s))

IsUpper(c) == c \in 65..90
IsLower(c) == c \in 97..122
IsDigit(c) == c \in 48..57

\* the 6-bit value of a base64 character; std: '+' '/', url: '-' '_'; -1 if illegal
B64Value(c, url) ==
    IF IsUpper(c) THEN c - 65
    ELSE IF IsLower(c) THEN c - 97 + 26
    ELSE IF IsDigit(c) THEN c - 48 + 52
    ELSE IF (~url /\ c = 43) \/ (url /\ c = 45) THEN 62
    ELSE IF (~url /\ c = 47) \/ (url /\ c = 95) THEN 63
    ELSE -1

\* the base64 character of a 6-bit value in the standard alphabet
B64Char(v) ==
    IF v < 26 THEN 65 + v
    ELSE IF v < 52 THEN 97 + (v - 26)
    ELSE IF v < 62 THEN 48 + (v - 52)
    ELSE IF v = 62 THEN 43 ELSE 47

\* base64.StdEncoding.EncodeToString
RECURSIVE B64Encode(_)
B64Encode(b) ==
    IF Len(b) = 0 THEN << >>
    ELSE IF Len(b) = 1 THEN
        <<B64Char(b[1] \div 4), B64Char((b[1] % 4) * 16), 61, 61>>
    ELSE IF Len(b) = 2 THEN
        <<B64Char(b[1] \div 4), B64Char((b[1] % 4) * 16 + b[2] \div 16),
          B64Char((b[2] % 16) * 4), 61>>
    ELSE
        <<B64Char(b[1] \div 4), B64Char((b[1] % 4) * 16 + b[2] \div 16),
          B64Char((b[2] % 16) * 4 + b[3] \div 64), B64Char(b[3] % 64)>>
        \o B64Encode(SubSeq(b, 4, Len(b)))

\* the bytes of a run of 2, 3 or 4 legal base64 characters
B64Quantum(q, url) ==
    LET v(i) == B64Value(q[i], url)
    IN  IF Len(q) = 2 THEN <<v(1) * 4 + v(2) \div 16>>
        ELSE IF Len(q) = 3 THEN <<v(1) * 4 + v(2) \div 16, (v(2) % 16) * 16 + v(3) \div 4>>
        ELSE <<v(1) * 4 + v(2) \div 16, (v(2) % 16) * 16 + v(3) \div 4,
               (v(3) % 4) * 64 + v(4)>>

RECURSIVE B64Groups(_, _)
B64Groups(s, url) ==
    IF Len(s) = 0 THEN << >>
    ELSE IF Len(s) <= 4 THEN B64Quantum(s, url)
    ELSE B64Quantum(SubSeq(s, 1, 4), url) \o B64Groups(SubSeq(s, 5, Len(s)), url)

\* s without CR and LF, which the decoder skips
RECURSIVE StripNewlines(_)
StripNewlines(s) ==
    IF Len(s) = 0 THEN << >>
    ELSE IF s[1] \in {10, 13} THEN StripNewlines(Tail(s))
    ELSE <<s[1]>> \o StripNewlines(Tail(s))

\* the number of '=' that end a padded encoding: 0, 1 or 2
Padding(s) ==
    IF Len(s) = 0 THEN 0
    ELSE IF Len(s) >= 2 /\ s[Len(s)] = 61 /\ s[Len(s) - 1] = 61 THEN 2
    ELSE IF s[Len(s)] = 61 THEN 1 ELSE 0

\* decoding of the characters before the padding, n characters in all
B64DecodeData(data, n, url, padded) ==
    IF /\ \A i \in 1..Len(data) : B64Value(data[i], url) >= 0
       /\ IF padded THEN n % 4 = 0 ELSE n % 4 # 1
    THEN [err |-> "", val |-> B64Groups(data, url)]
    ELSE [err |-> "illegal base64 data", val |-> << >>]

B64DecodeStripped(s, url, padded) ==
    B64DecodeData(SubSeq(s, 1, Len(s) - (IF padded THEN Padding(s) ELSE 0)),
                  Len(s), url, padded)

\* Encoding.DecodeString of encoding/base64 (non-strict): padded encodings need
\* whole quanta with '=' only as the final one or two characters; the raw
\* encoding takes no '=' and no dangling single character.
B64Decode(raw, url, padded) == B64DecodeStripped(StripNewlines(raw), url, padded)

IsUnreserved(c) == IsUpper(c) \/ IsLower(c) \/ IsDigit(c) \/ c \in {45, 95, 46, 126}

HexDigit(v) == IF v < 10 THEN 48 + v ELSE 65 + (v - 10)

\* url.QueryEscape
RECURSIVE QueryEscape(_)
QueryEscape(s) ==
    IF Len(s) = 0 THEN << >>
    ELSE (IF IsUnreserved(s[1]) THEN <<s[1]>>
          ELSE IF s[1] = 32 THEN <<43>>
          ELSE <<37, HexDigit(s[1] \div 16), HexDigit(s[1] % 16)>>)
         \o QueryEscape(Tail(s))

\* a byte that may appear in a header field name (an RFC 7230 token character)
IsTokenChar(c) ==
    IsUpper(c) \/ IsLower(c) \/ IsDigit(c)
    \/ c \in {33, 35, 36, 37, 38, 39, 42, 43, 45, 46, 94, 95, 96, 124, 126}

\* textproto.CanonicalMIMEHeaderKey, which http.Header.Set applies to the name
CanonicalMIMEHeaderKey(s) ==
    IF \E i \in 1..Len(s) : ~IsTokenChar(s[i]) THEN s
    ELSE [i \in 1..Len(s) |->
            IF i = 1 \/ s[i-1] = 45
            THEN (IF IsLower(s[i]) THEN s[i] - 32 ELSE s[i])
            ELSE (IF IsUpper(s[i]) THEN s[i] + 32 ELSE s[i])]

----------------------------------------------------------------------------
(* The process environment the resolver reads (os.LookupEnv, os.ReadFile). *)

\* environment variables: "E" is set but empty, "V" is set to "u"; others unset
Environ == (<<69>> :> << >>) @@ (<<86>> :> <<117>>)

\* readable files: "f" holds " p\n"; every other path is unreadable
Files == (<<102>> :> <<32, 112, 10>>)

\* a resolver result: err = "" on success
Ok(v) == [err |-> "", val |-> v]
Err(e) == [err |-> e, val |-> << >>]

\* the base64 fallback chain of fromFlexibleValue: StdEncoding, then
\* URLEncoding, then RawURLEncoding; the first success is returned
FirstDecoded(std, url, raw) ==
    IF std.err = "" THEN std
    ELSE IF url.err = "" THEN url
    ELSE raw

DecodeBase64Variants(value) ==
    FirstDecoded(B64Decode(value, FALSE, TRUE), B64Decode(value, TRUE, TRUE),
                 B64Decode(value, TRUE, FALSE))

\* C19 variant of ResolveSource: the default case takes the value as it is
ResolveSource_AnySource(source, value) ==
    IF source = S_file THEN
        (IF value \in DOMAIN Files THEN Ok(TrimSpace(Files[value]))
         ELSE Err("no such file or directory"))
    ELSE IF source = S_env THEN
        (IF value \in DOMAIN Environ THEN Ok(Environ[value])
         ELSE Err("environment variable not found"))
    ELSE Ok(value)

\* the source switch of fromFlexibleValue
ResolveSource(source, value) ==
    IF source = S_file THEN
        (IF value \in DOMAIN Files THEN Ok(TrimSpace(Files[value]))
         ELSE Err("no such file or directory"))
    ELSE IF source = S_env THEN
        (IF value \in DOMAIN Environ THEN Ok(Environ[value])
         ELSE Err("environment variable not found"))
    ELSE IF source = S_direct THEN Ok(value)
    ELSE Err("unknown source")

\* lines 269-287: the decoding of the resolved value
DecodeResolved(isBase64, encoding, resolved) ==
    IF resolved.err # "" THEN resolved
    ELSE IF isBase64 = 1 THEN
        (IF encoding = S_base64 THEN DecodeBase64Variants(resolved.val)
         ELSE Err("unknown encoding"))
    ELSE resolved

\* lines 243-287, given the parts; Go indexes them from 0, as parts[isBase64],
\* parts[isBase64+1] and parts[1+1+isBase64]
FromParts(isBase64, parts) ==
    IF Len(parts) < 1 + 1 + 1 + isBase64
    THEN Err("invalid flexible fieldValue format")
    ELSE DecodeResolved(isBase64, parts[isBase64 + 1],
                        ResolveSource(parts[isBase64 + 2], parts[1 + 1 + isBase64 + 1]))

\* C12 variant of SplitFlexible: strings.Split, which cuts at every "~"
SplitFlexible_NoLimit(fieldValue, isBase64) ==
    FromParts(isBase64, SplitN(fieldValue, Tilde, Len(fieldValue) + 1))

\* lines 236-242
SplitFlexible(fieldValue, isBase64) ==
    FromParts(isBase64, SplitN(fieldValue, Tilde, 1 + 1 + 1 + isBase64))

fromFlexibleValue(fieldValue) ==
    IF ~HasPrefix(fieldValue, Tilde) THEN Ok(fieldValue)
    ELSE SplitFlexible(fieldValue, IF HasPrefix(fieldValue, S_base64Prefix) THEN 1 ELSE 0)

\* fromFlexibleField wraps the error with the field's name
WrapFieldError(fieldName, r) ==
    IF r.err # "" THEN [err |-> r.err, field |-> fieldName, val |-> << >>]
    ELSE [err |-> "", field |-> fieldName, val |-> r.val]

fromFlexibleField(fieldName, fieldValue) ==
    WrapFieldError(fieldName, fromFlexibleValue(fieldValue))

queryEncode(s, skip) == IF skip THEN s ELSE QueryEscape(s)

maxInt(a, b) == IF a > b THEN a ELSE b

\* m[k] = v on a Go map
MapSet(m, k, v) == [x \in DOMAIN m \cup {k} |-> IF x = k THEN v ELSE m[x]]

\* the empty map (make(map[string]string))
EmptyMap == [x \in {} |-> << >>]

\* the header loop of New over headers[i..]: the map built so far, or the
\* first resolution error
RECURSIVE ResolveHeaders(_, _, _)
AddHeader(headers, i, m, hdrName, hdrValue) ==
    IF hdrName.err # "" THEN [err |-> hdrName.err, field |-> hdrName.field, map |-> m]
    ELSE IF hdrValue.err # "" THEN [err |-> hdrValue.err, field |-> hdrValue.field, map |-> m]
    ELSE ResolveHeaders(headers, i + 1, MapSet(m, hdrName.val, hdrValue.val))

ResolveHeaders(headers, i, m) ==
    IF i > Len(headers) THEN [err |-> "", field |-> "", map |-> m]
    ELSE AddHeader(headers, i, m,
                   fromFlexibleField("header.name", headers[i].Name),
                   fromFlexibleField("header.value", headers[i].Value))

\* what New returns: handler is << >> for nil, or <<the instance>>
NewFails(e, f) == [err |-> e, field |-> f, handler |-> << >>]

\* time.Time{}: the zero time, earlier than every instant the clock shows
ZeroTime == -1000

\* a Go string is two words, a data pointer and a length; "" is (nil, 0)
StringHeader(s) == [data |-> s, len |-> Len(s)]

\* C14 variant of InitialState: an expiry that no instant of the clock is
\* after
InitialState_Valid == [token |-> StringHeader(EmptyStr), expires |-> 1000]

\* the initial c.state
InitialState == [token |-> StringHeader(EmptyStr), expires |-> ZeroTime]

\* lines 84-86: the Authorization header New computes from user and pass
BasicAuthorization(user, pass, basicAuthSkipEncoding) ==
    S_Basic \o B64Encode(queryEncode(user, basicAuthSkipEncoding) \o <<58>>
                         \o queryEncode(pass, basicAuthSkipEncoding))

\* New, given what the resolver made of the header list, user, pass and url
\* (pass is looked at only under user != "", where the code resolves it)
NewResolved(agr, hdrs, user, pass, grantUrl) ==
    IF hdrs.err # "" THEN NewFails(hdrs.err, hdrs.field)
    ELSE IF user.err # "" THEN NewFails(user.err, user.field)
    ELSE IF user.val # EmptyStr /\ pass.err # "" THEN NewFails(pass.err, pass.field)
    ELSE IF grantUrl.err # "" THEN NewFails(grantUrl.err, grantUrl.field)
    ELSE IF grantUrl.val = EmptyStr THEN NewFails("missing value for url", "url")
    ELSE [err |-> "", field |-> "",
          handler |-> <<[authGrantUrl |-> grantUrl.val,
                         authGrantScope |-> agr.Scope,
                         authGrantHeaders |->
                             IF user.val # EmptyStr
                             THEN MapSet(hdrs.map, S_Authorization,
                                         BasicAuthorization(user.val, pass.val,
                                                            agr.BasicAuthSkipEncoding))
                             ELSE hdrs.map,
                         authGrantExpiresMarginSeconds |->
                             maxInt(1, agr.ExpiresMarginSeconds),
                         state |-> InitialState]>>]

New(config) ==
    NewResolved(config.AuthGrantRequest,
                ResolveHeaders(config.AuthGrantRequest.Headers, 1, EmptyMap),
                fromFlexibleField("user", config.AuthGrantRequest.User),
                fromFlexibleField("pass", config.AuthGrantRequest.Pass),
                fromFlexibleField("url", config.AuthGrantRequest.URL))

----------------------------------------------------------------------------
(* Configurations.                                                         *)

\* a Config with the given authGrantRequest fields
MkConfig(url, user, pass, scope, headers, margin, skip) ==
    [AuthGrantRequest |->
        [URL |-> url, User |-> user, Pass |-> pass, Scope |-> scope,
         Headers |-> headers, ExpiresMarginSeconds |-> margin,
         BasicAuthSkipEncoding |-> skip]]

\* url values: "h", ":" (not a URL), "", "~direct~" (resolves to ""),
\* "~env~N" (unset variable), "~h" (no source)
ConfigURLs == {<<104>>, <<58>>, << >>, <<126, 100, 105, 114, 101, 99, 116, 126>>, <<126, 101, 110, 118, 126, 78>>, <<126, 104>>}

\* user values: "u", "u/", "", "~env~E" (set but empty), "~env~V" ("u"), "~file" (no payload)
ConfigUsers == {<<117>>, <<117, 47>>, << >>, <<126, 101, 110, 118, 126, 69>>, <<126, 101, 110, 118, 126, 86>>, <<126, 102, 105, 108, 101>>}

\* pass values: "p", "~file~f" (" p\n"), "~base64~direct~cA" ("p"),
\* "~bad~x" (unknown source), "~base64~direct~c" (not base64)
ConfigPasses == {<<112>>, <<126, 102, 105, 108, 101, 126, 102>>, <<126, 98, 97, 115, 101, 54, 52, 126, 100, 105, 114, 101, 99, 116, 126, 99, 65>>, <<126, 98, 97, 100, 126, 120>>, <<126, 98, 97, 115, 101, 54, 52, 126, 100, 105, 114, 101, 99, 116, 126, 99>>}

\* header lists: none; authorization: m; Authorization: m; ~env~N: m; X: ~file~g
ConfigHeaders ==
    { << >>,
      <<[Name |-> <<97, 117, 116, 104, 111, 114, 105, 122, 97, 116, 105, 111, 110>>, Value |-> <<109>>]>>,
      <<[Name |-> <<65, 117, 116, 104, 111, 114, 105, 122, 97, 116, 105, 111, 110>>, Value |-> <<109>>]>>,
      <<[Name |-> <<126, 101, 110, 118, 126, 78>>, Value |-> <<109>>]>>,
      <<[Name |-> <<88>>, Value |-> <<126, 102, 105, 108, 101, 126, 103>>]>> }

\* every combination of the flexible fields, for the construction specification
ConfigSpace ==
    { MkConfig(url, user, pass, EmptyStr, headers, 0, skip) :
        url \in ConfigURLs, user \in ConfigUsers, pass \in ConfigPasses,
        headers \in ConfigHeaders, skip \in BOOLEAN }

\* the configurations of the instances whose request handling is explored:
\* margins unset (0) and 2, with and without a scope; a manual lower-case
\* authorization header beside user/pass; a manual Authorization header and
\* no user; a grant URL that net/url cannot parse
ServeConfigs ==
    { MkConfig(<<104>>, <<117>>, <<112>>, EmptyStr, << >>, 0, FALSE),
      MkConfig(<<104>>, <<117, 47>>, <<126, 102, 105, 108, 101, 126, 102>>, <<115>>, <<[Name |-> <<97, 117, 116, 104, 111, 114, 105, 122, 97, 116, 105, 111, 110>>, Value |-> <<109>>]>>, 2, FALSE),
      MkConfig(<<104>>, << >>, <<112>>, EmptyStr, <<[Name |-> <<65, 117, 116, 104, 111, 114, 105, 122, 97, 116, 105, 111, 110>>, Value |-> <<109>>]>>, 0, TRUE),
      MkConfig(<<58>>, <<117>>, <<112>>, EmptyStr, << >>, 0, FALSE) }

----------------------------------------------------------------------------
(* Bounds of the model.                                                    *)

\* request-handling goroutines that may run ServeHTTP at the same time
MaxReq == 2

\* the clock runs from 0 to MaxTime ticks
MaxTime == 5

\* clock ticks per second (the clock is finer than the second, so that
\* Truncate(time.Second) is not the identity)
TicksPerSec == 2

\* width in bits of time.Duration, scaled with the tick as int64 nanoseconds are
DurBits == 4

----------------------------------------------------------------------------
(* Time.                                                                    *)

\* time.Time.Truncate(time.Second), for t >= 0
TruncateSecond(t) == t - (t % TicksPerSec)

\* 2^n
RECURSIVE Pow2(_)
Pow2(n) == IF n = 0 THEN 1 ELSE 2 * Pow2(n - 1)

\* a product in the signed DurBits-bit time.Duration: it wraps around
WrapDuration(x) == ((x + Pow2(DurBits - 1)) % Pow2(DurBits)) - Pow2(DurBits - 1)

\* time.Duration(n) * time.Second
DurationSeconds(n) == WrapDuration(n * TicksPerSec)

\* C2 variant of After: the expiry instant itself already counts as expired
After_AtOrAfter(t, u) == t >= u

\* t.After(u)
After(t, u) == t > u

\* a whole number of seconds whose Duration wraps around
OverflowSeconds == Pow2(DurBits - 1) \div TicksPerSec + 1

----------------------------------------------------------------------------
(* Grant responses: the wire bytes of a body and the JSON document they    *)
(* denote, which is what encoding/json makes of them.  A JSON number is    *)
(* held in halves (h = 7 is 3.5), so that int64(float64) truncates.        *)

JAbsent == [t |-> "absent", s |-> << >>, h |-> 0]
JString(str) == [t |-> "string", s |-> str, h |-> 0]
JNumber(halves) == [t |-> "number", s |-> << >>, h |-> halves]
JNull == [t |-> "null", s |-> << >>, h |-> 0]

\* decimal digits of n >= 0 (the %d verb)
RECURSIVE Itoa(_)
Itoa(n) == IF n < 10 THEN <<48 + n>> ELSE Itoa(n \div 10) \o <<48 + (n % 10)>>

Body(raw, kind, accessToken, expiresIn) ==
    [raw |-> raw, kind |-> kind, access_token |-> accessToken, expires_in |-> expiresIn]

\* "a" and "bc": the access tokens the authorization server issues
TokenA == <<97>>
TokenBC == <<98, 99>>

\* {"access_token":
BodyTruncated == Body(<<123, 34, 97, 99, 99, 101, 115, 115, 95, 116, 111, 107, 101, 110, 34, 58>>, "invalid", JAbsent, JAbsent)

\* [] (JSON, but not an object)
BodyArray == Body(<<91, 93>>, "array", JAbsent, JAbsent)

\* {"expires_in":3}
BodyNoToken == Body(<<123, 34, 101, 120, 112, 105, 114, 101, 115, 95, 105, 110, 34, 58, 51, 125>>, "object", JAbsent, JNumber(6))

\* {"access_token":1,"expires_in":3}
BodyNumberToken == Body(<<123, 34, 97, 99, 99, 101, 115, 115, 95, 116, 111, 107, 101, 110, 34, 58, 49, 44, 34, 101, 120, 112, 105, 114, 101, 115, 95, 105, 110, 34, 58, 51, 125>>, "object", JNumber(2), JNumber(6))

\* {"access_token":"a","expires_in":3.5}
BodyNumber == Body(<<123, 34, 97, 99, 99, 101, 115, 115, 95, 116, 111, 107, 101, 110, 34, 58, 34, 97, 34, 44, 34, 101, 120, 112, 105, 114, 101, 115, 95, 105, 110, 34, 58, 51, 46, 53, 125>>, "object", JString(TokenA), JNumber(7))

\* {"access_token":"bc","expires_in":"0"}
BodyNumericString == Body(<<123, 34, 97, 99, 99, 101, 115, 115, 95, 116, 111, 107, 101, 110, 34, 58, 34, 98, 99, 34, 44, 34, 101, 120, 112, 105, 114, 101, 115, 95, 105, 110, 34, 58, 34, 48, 34, 125>>, "object", JString(TokenBC), JString(<<48>>))

\* {"access_token":"a","expires_in":"x"}
BodyBadString == Body(<<123, 34, 97, 99, 99, 101, 115, 115, 95, 116, 111, 107, 101, 110, 34, 58, 34, 97, 34, 44, 34, 101, 120, 112, 105, 114, 101, 115, 95, 105, 110, 34, 58, 34, 120, 34, 125>>, "object", JString(TokenA), JString(<<120>>))

\* {"access_token":"bc"}
BodyNoExpires == Body(<<123, 34, 97, 99, 99, 101, 115, 115, 95, 116, 111, 107, 101, 110, 34, 58, 34, 98, 99, 34, 125>>, "object", JString(TokenBC), JAbsent)

\* {"access_token":"a","expires_in":null}
BodyNullExpires == Body(<<123, 34, 97, 99, 99, 101, 115, 115, 95, 116, 111, 107, 101, 110, 34, 58, 34, 97, 34, 44, 34, 101, 120, 112, 105, 114, 101, 115, 95, 105, 110, 34, 58, 110, 117, 108, 108, 125>>, "object", JString(TokenA), JNull)

\* {"access_token":"a","expires_in":<a number of seconds large enough to wrap>}
BodyHuge ==
    Body(<<123, 34, 97, 99, 99, 101, 115, 115, 95, 116, 111, 107, 101, 110, 34, 58, 34, 97, 34, 44, 34, 101, 120, 112, 105, 114, 101, 115, 95, 105, 110, 34, 58>> \o Itoa(OverflowSeconds + 2) \o <<125>>, "object",
         JString(TokenA), JNumber(2 * (OverflowSeconds + 2)))

\* Forbidden (wrong auth header)
BodyForbidden == Body(<<70, 111, 114, 98, 105, 100, 100, 101, 110, 32, 40, 119, 114, 111, 110, 103, 32, 97, 117, 116, 104, 32, 104, 101, 97, 100, 101, 114, 41>>, "invalid", JAbsent, JAbsent)

Response(status, body) == [StatusCode |-> status, Body |-> body]

\* what the authorization server may answer
Responses ==
    { Response(200, b) :
        b \in {BodyTruncated, BodyArray, BodyNoToken, BodyNumberToken, BodyNumber,
               BodyNumericString, BodyBadString, BodyNoExpires, BodyNullExpires,
               BodyHuge} }
    \cup { Response(403, BodyForbidden), Response(403, BodyNumber) }

\* no response (yet)
NoResponse == Response(0, Body(<< >>, "none", JAbsent, JAbsent))

\* json.Unmarshal(body, &responseData) into a map[string]interface{}:
\* an error unless the body is a JSON object or null
Unmarshal(body) ==
    IF body.kind \in {"object"}
    THEN [err |-> "", access_token |-> body.access_token, expires_in |-> body.expires_in]
    ELSE IF body.kind = "null"
    THEN [err |-> "", access_token |-> JAbsent, expires_in |-> JAbsent]
    ELSE [err |-> "unmarshall", access_token |-> JAbsent, expires_in |-> JAbsent]

\* the value of a run of decimal digits
RECURSIVE DecimalValue(_)
DecimalValue(s) ==
    IF Len(s) = 0 THEN 0 ELSE 10 * DecimalValue(SubSeq(s, 1, Len(s) - 1)) + (s[Len(s)] - 48)

AllDigits(s) == \A i \in 1..Len(s) : IsDigit(s[i])

\* the halves a decimal with the given whole and fraction digits amounts to
DecimalHalves(neg, whole, frac) ==
    IF Len(whole) + Len(frac) > 0 /\ AllDigits(whole) /\ AllDigits(frac)
    THEN [err |-> "",
          h |-> (IF neg THEN -1 ELSE 1)
                * (2 * DecimalValue(whole)
                   + (IF \E i \in 1..Len(frac) : frac[i] # 48 THEN 1 ELSE 0))]
    ELSE [err |-> "invalid syntax", h |-> 0]

\* an unsigned decimal split at its point (dot = 0: no point)
ParseUnsigned(neg, u, dot) ==
    DecimalHalves(neg,
                  IF dot = 0 THEN u ELSE SubSeq(u, 1, dot - 1),
                  IF dot = 0 THEN << >> ELSE SubSeq(u, dot + 1, Len(u)))

\* strconv.ParseFloat(s, 64) on plain decimals [-]digits[.digits], in halves;
\* any other text is a syntax error
ParseFloat(s) ==
    IF Len(s) > 0 /\ s[1] = 45
    THEN ParseUnsigned(TRUE, Tail(s), IndexByte(Tail(s), <<46>>))
    ELSE ParseUnsigned(FALSE, s, IndexByte(s, <<46>>))

\* int64(f) of a float64 held in halves: truncation toward zero
Int64OfFloat(h) == IF h >= 0 THEN h \div 2 ELSE -((-h) \div 2)

----------------------------------------------------------------------------
(* HTTP pieces of ServeHTTP.                                                *)

\* an http.Header: canonical name -> list of values
EmptyHeader == [x \in {} |-> << >>]

\* C8 variant of HeaderSet: http.Header.Add, which appends to the values
\* already there
HeaderSet_Add(h, name, value) ==
    IF CanonicalMIMEHeaderKey(name) \in DOMAIN h
    THEN MapSet(h, CanonicalMIMEHeaderKey(name),
                Append(h[CanonicalMIMEHeaderKey(name)], value))
    ELSE MapSet(h, CanonicalMIMEHeaderKey(name), <<value>>)

\* http.Header.Set(name, value)
HeaderSet(h, name, value) == MapSet(h, CanonicalMIMEHeaderKey(name), <<value>>)

\* the headers of the requests that arrive: "X: 1", without and with a
\* caller-supplied "Authorization: x"
IncomingHeaders ==
    { (<<88>> :> <<<<49>>>>),
      (<<88>> :> <<<<49>>>>) @@ (S_Authorization :> <<<<120>>>>) }

\* http.StatusText
StatusText(status) ==
    IF status = 200 THEN <<79, 75>>
    ELSE IF status = 403 THEN <<70, 111, 114, 98, 105, 100, 100, 101, 110>>
    ELSE IF status = 500 THEN <<73, 110, 116, 101, 114, 110, 97, 108, 32, 83, 101, 114, 118, 101, 114, 32, 69, 114, 114, 111, 114>>
    ELSE << >>

\* what serveError writes to the ResponseWriter: the status, and the body
\* "<status text>: <msg>"
serveError(msg, status) ==
    [status |-> status, body |-> StatusText(status) \o <<58, 32>> \o msg]

serveInternalError(msg) == serveError(msg, 500)

\* "new-request: ", "do-request: ", "unmarshall: " (followed by the error's
\* text, left out), "access_token not found",
\* "expires_in not found or not parseable", "status-code: "
MsgNewRequest == <<110, 101, 119, 45, 114, 101, 113, 117, 101, 115, 116, 58, 32>>
MsgDoRequest == <<100, 111, 45, 114, 101, 113, 117, 101, 115, 116, 58, 32>>
MsgUnmarshall == <<117, 110, 109, 97, 114, 115, 104, 97, 108, 108, 58, 32>>
MsgAccessToken == <<97, 99, 99, 101, 115, 115, 95, 116, 111, 107, 101, 110, 32, 110, 111, 116, 32, 102, 111, 117, 110, 100>>
MsgExpiresIn == <<101, 120, 112, 105, 114, 101, 115, 95, 105, 110, 32, 110, 111, 116, 32, 102, 111, 117, 110, 100, 32, 111, 114, 32, 110, 111, 116, 32, 112, 97, 114, 115, 101, 97, 98, 108, 101>>
MsgStatusCode == <<115, 116, 97, 116, 117, 115, 45, 99, 111, 100, 101, 58, 32>>

\* http.NewRequest fails when net/url cannot parse the URL; of the URLs of
\* the model that is the one starting with a colon (missing protocol scheme)
NewRequestFails(url) == Len(url) > 0 /\ url[1] = 58

\* url.Values.Encode of the grant form: grant_type, then scope if configured
GrantForm(scope) ==
    <<103, 114, 97, 110, 116, 95, 116, 121, 112, 101, 61, 99, 108, 105, 101, 110, 116, 95, 99, 114, 101, 100, 101, 110, 116, 105, 97, 108, 115>> \o (IF scope # EmptyStr THEN <<38, 115, 99, 111, 112, 101, 61>> \o QueryEscape(scope) ELSE << >>)

\* the orders in which range may visit the keys of a Go map: all of them
Orders(S) ==
    { f \in [1..Cardinality(S) -> S] : \A i, j \in 1..Cardinality(S) : f[i] = f[j] => i = j }

\* agReq.Header after the two defaults and the loop over authGrantHeaders
\* taken in the given order
RECURSIVE SetHeaders(_, _, _, _)
SetHeaders(h, m, order, i) ==
    IF i > Len(order) THEN h
    ELSE SetHeaders(HeaderSet(h, order[i], m[order[i]]), m, order, i + 1)

GrantRequestHeader(m, order) ==
    SetHeaders(HeaderSet(HeaderSet(EmptyHeader, S_ContentType, S_formMime), S_Accept, S_anyMime),
               m, order, 1)

\* C17 variant of GrantFails: the error is not served and the request goes on
GrantFails_GoesOn(served) ==
    [ok |-> TRUE, served |-> served, token |-> EmptyStr, expires |-> ZeroTime]

\* a rejected grant: what is served to the caller; nothing is stored
GrantFails(served) ==
    [ok |-> FALSE, served |-> served, token |-> EmptyStr, expires |-> ZeroTime]

\* lines 160-164: expires_in as a float64 and the err left behind; err is
\* still the nil of json.Unmarshal unless strconv.ParseFloat sets it
ExpiresInFloat(expires_in) ==
    IF expires_in.t # "number" /\ expires_in.t = "string"
    THEN ParseFloat(expires_in.s)
    ELSE [err |-> "", h |-> IF expires_in.t = "number" THEN expires_in.h ELSE 0]

\* lines 165-172, given the float and err of lines 160-164
StoreOutcome(accessToken, okFlt, parsed, margin, t) ==
    IF ~okFlt /\ parsed.err # "" THEN GrantFails(serveInternalError(MsgExpiresIn))
    ELSE [ok |-> TRUE, served |-> [status |-> 0, body |-> << >>],
          token |-> accessToken,
          expires |-> TruncateSecond(t)
                      + DurationSeconds(maxInt(1, Int64OfFloat(parsed.h) - margin))]

\* C4 variant of ParsedOutcome: the access_token type assertion of line 156
\* is not checked
ParsedOutcome_AnyToken(responseData, margin, t) ==
    IF responseData.err # "" THEN GrantFails(serveInternalError(MsgUnmarshall))
    ELSE StoreOutcome(responseData.access_token.s,
                      responseData.expires_in.t = "number",
                      ExpiresInFloat(responseData.expires_in), margin, t)

\* lines 149-172, given what json.Unmarshal made of the body
ParsedOutcome(responseData, margin, t) ==
    IF responseData.err # "" THEN GrantFails(serveInternalError(MsgUnmarshall))
    ELSE IF responseData.access_token.t # "string"
    THEN GrantFails(serveInternalError(MsgAccessToken))
    ELSE StoreOutcome(responseData.access_token.s,
                      responseData.expires_in.t = "number",
                      ExpiresInFloat(responseData.expires_in), margin, t)

\* C18 variant of GrantOutcome: the status check of line 144 is left out
GrantOutcome_AnyStatus(res, margin, t) == ParsedOutcome(Unmarshal(res.Body), margin, t)

\* lines 144-172 of ServeHTTP on a grant response received at instant t by
\* an instance with the given margin: the error to serve, or the token and
\* expiry to store
GrantOutcome(res, margin, t) ==
    IF res.StatusCode # 200
    THEN GrantFails(serveError(MsgStatusCode \o Itoa(res.StatusCode), res.StatusCode))
    ELSE ParsedOutcome(Unmarshal(res.Body), margin, t)

----------------------------------------------------------------------------
(* State.                                                                  *)

VARIABLES
    config,     \* the Config handed to New
    ret,        \* what New returned: the handler (or nil) and the error
    state,      \* c.state as the memory holds it: token (data, len), expires
    buf,        \* per goroutine: its stores of lines 171-172 not yet in memory
    pc,         \* per goroutine: where it is in ServeHTTP
    rq,         \* per goroutine: the request it handles (req) and what it met
    out,        \* per goroutine: its calls of c.next.ServeHTTP and writes to rw
    agReq,      \* the grant request sent last
    now,        \* the clock, in ticks
    issued,     \* the access tokens of the grant responses stored so far
    lastGrant   \* the grant response stored last, and the instant of its store

vars == <<config, ret, state, buf, pc, rq, out, agReq, now, issued, lastGrant>>

\* the goroutines serving requests
Slots == 1..MaxReq

\* the receiver of ServeHTTP: the instance New returned
c == ret.handler[1]

\* New has not been called
NotCalled == [err |-> "not called", field |-> "", handler |-> << >>]

\* the words of c.state: the token's data pointer and length, and expires
\* (a truncated time.Time differs from another only in its seconds word)
Words == {"data", "len", "expires"}

NoBuf == [token |-> StringHeader(EmptyStr), expires |-> ZeroTime, pend |-> {}]

NoRq == [Header |-> EmptyHeader, incoming |-> EmptyHeader, fresh |-> FALSE,
         grants |-> 0, res |-> NoResponse, ctxDone |-> FALSE]

NoOut == [next |-> << >>, rw |-> << >>, panicked |-> FALSE]

NoGrantRequest == [URL |-> << >>, Header |-> EmptyHeader, Body |-> << >>]

NoGrant == [access_token |-> EmptyStr, expires_in |-> JAbsent, at |-> ZeroTime]

\* bytes that may lie behind a string's data when a torn header over-reads it
OverreadBytes == {0, 99}

\* the bytes a string header denotes; fill stands for memory past the data
StringValue(hdr, fill) ==
    [i \in 1..hdr.len |-> IF i <= Len(hdr.data) THEN hdr.data[i] ELSE fill]

RequestVarsInit ==
    /\ state = InitialState
    /\ buf = [r \in Slots |-> NoBuf]
    /\ pc = [r \in Slots |-> "idle"]
    /\ rq = [r \in Slots |-> NoRq]
    /\ out = [r \in Slots |-> NoOut]
    /\ agReq = NoGrantRequest
    /\ now = 0
    /\ issued = {}
    /\ lastGrant = NoGrant

\* an instance constructed from one of the given configurations, before its
\* first request
InitWith(configs) ==
    /\ config \in configs
    /\ ret = New(config)
    /\ ret.err = ""
    /\ RequestVarsInit

----------------------------------------------------------------------------------------------------------------------------------------
(* ServeHTTP, in the steps between which other goroutines may run.  The    *)
(* loads and stores of c.state are not synchronised: the stores of lines   *)
(* 171-172 reach memory word by word, in any order, and a load sees what   *)
(* memory holds at that moment.                                            *)

\* req as ServeHTTP receives it, with what line 113 found; done: the
\* request's context is cancelled already
Arrived(h, done, grants) ==
    [Header |-> h, incoming |-> h, fresh |-> now <= state.expires,
     grants |-> grants, res |-> NoResponse, ctxDone |-> done]

\* C20 variant of GrantContextDone: the grant request carries the context
\* of the incoming request (http.NewRequestWithContext(req.Context(), ...))
GrantContextDone_OfRequest(r) == rq[r].ctxDone

\* the context of the grant request: line 120 uses http.NewRequest, whose
\* context is context.Background(), not req.Context(); it is never done
GrantContextDone(r) == FALSE

\* line 113 finds the token valid: on to line 178
ServeHTTP_Valid(r, h, done) ==
    /\ pc[r] = "idle"
    /\ ~After(now, state.expires)
    /\ pc' = [pc EXCEPT ![r] = "forward"]
    /\ rq' = [rq EXCEPT ![r] = Arrived(h, done, 0)]
    /\ out' = [out EXCEPT ![r] = NoOut]
    /\ UNCHANGED <<config, ret, state, buf, agReq, now, issued, lastGrant>>

\* lines 113-123: the token is stale and http.NewRequest fails
ServeHTTP_NewRequestError(r, h, done) ==
    /\ pc[r] = "idle"
    /\ After(now, state.expires)
    /\ NewRequestFails(c.authGrantUrl)
    /\ rq' = [rq EXCEPT ![r] = Arrived(h, done, 0)]
    /\ out' = [out EXCEPT ![r] = [next |-> << >>,
                                  rw |-> <<serveInternalError(MsgNewRequest)>>,
                                  panicked |-> FALSE]]
    /\ UNCHANGED <<config, ret, state, buf, pc, agReq, now, issued, lastGrant>>

\* lines 113-130: the token is stale; the grant request is built and sent
ServeHTTP_SendGrant(r, h, done) ==
    /\ pc[r] = "idle"
    /\ After(now, state.expires)
    /\ ~NewRequestFails(c.authGrantUrl)
    /\ \E order \in Orders(DOMAIN c.authGrantHeaders) :
          agReq' = [URL |-> c.authGrantUrl,
                    Header |-> GrantRequestHeader(c.authGrantHeaders, order),
                    Body |-> GrantForm(c.authGrantScope)]
    /\ pc' = [pc EXCEPT ![r] = "granting"]
    /\ rq' = [rq EXCEPT ![r] = Arrived(h, done, 1)]
    /\ out' = [out EXCEPT ![r] = NoOut]
    /\ UNCHANGED <<config, ret, state, buf, now, issued, lastGrant>>

\* lines 130-134: http.DefaultClient.Do returns an error
ServeHTTP_DoError(r) ==
    /\ pc[r] = "granting"
    /\ pc' = [pc EXCEPT ![r] = "idle"]
    /\ out' = [out EXCEPT ![r].rw = Append(@, serveInternalError(MsgDoRequest))]
    /\ UNCHANGED <<config, ret, state, buf, rq, agReq, now, issued, lastGrant>>

\* lines 130-168: the authorization server answers and the answer is
\* rejected: an error is served
ServeHTTP_Rejected(r, res) ==
    /\ pc[r] = "granting"
    /\ ~GrantContextDone(r)
    /\ ~GrantOutcome(res, c.authGrantExpiresMarginSeconds, now).ok
    /\ rq' = [rq EXCEPT ![r].res = res]
    /\ out' = [out EXCEPT ![r].rw =
                  Append(@, GrantOutcome(res, c.authGrantExpiresMarginSeconds, now).served)]
    /\ pc' = [pc EXCEPT ![r] = "idle"]
    /\ UNCHANGED <<config, ret, state, buf, agReq, now, issued, lastGrant>>

\* lines 130-172: the authorization server answers and the answer is
\* accepted: the stores of its token and expiry are issued
ServeHTTP_Accepted(r, res) ==
    /\ pc[r] = "granting"
    /\ ~GrantContextDone(r)
    /\ GrantOutcome(res, c.authGrantExpiresMarginSeconds, now).ok
    /\ rq' = [rq EXCEPT ![r].res = res]
    /\ buf' = [buf EXCEPT ![r] =
                  [token |-> StringHeader(
                        GrantOutcome(res, c.authGrantExpiresMarginSeconds, now).token),
                   expires |-> GrantOutcome(res, c.authGrantExpiresMarginSeconds, now).expires,
                   pend |-> Words]]
    /\ pc' = [pc EXCEPT ![r] = "forward"]
    /\ issued' = issued \cup {GrantOutcome(res, c.authGrantExpiresMarginSeconds, now).token}
    /\ lastGrant' = [access_token |-> res.Body.access_token.s,
                     expires_in |-> res.Body.expires_in,
                     at |-> now]
    /\ UNCHANGED <<config, ret, state, out, agReq, now>>

\* one word of the stores of lines 171-172 reaches memory
StoreWord(r, w) ==
    /\ w \in buf[r].pend
    /\ state' = IF w = "expires" THEN [state EXCEPT !.expires = buf[r].expires]
                ELSE IF w = "data" THEN [state EXCEPT !.token.data = buf[r].token.data]
                ELSE [state EXCEPT !.token.len = buf[r].token.len]
    /\ buf' = [buf EXCEPT ![r] = IF buf[r].pend = {w} THEN NoBuf
                                 ELSE [buf[r] EXCEPT !.pend = @ \ {w}]]
    /\ UNCHANGED <<config, ret, pc, rq, out, agReq, now, issued, lastGrant>>

\* lines 178-179, the goroutine's own stores done: the token is loaded, the
\* header set and the next handler called
ServeHTTP_Forward(r) ==
    /\ pc[r] = "forward"
    /\ buf[r].pend = {}
    /\ ~(state.token.len > 0 /\ state.token.data = EmptyStr)
    /\ \E fill \in OverreadBytes :
          /\ rq' = [rq EXCEPT ![r].Header =
                       HeaderSet(@, S_Authorization,
                                 S_Bearer \o StringValue(state.token, fill))]
          /\ out' = [out EXCEPT ![r].next =
                        Append(@, HeaderSet(rq[r].Header, S_Authorization,
                                            S_Bearer \o StringValue(state.token, fill)))]
    /\ pc' = [pc EXCEPT ![r] = "idle"]
    /\ UNCHANGED <<config, ret, state, buf, agReq, now, issued, lastGrant>>

\* line 178 loads a torn token, a length with a nil data pointer: the
\* handler panics
ServeHTTP_Panic(r) ==
    /\ pc[r] = "forward"
    /\ buf[r].pend = {}
    /\ state.token.len > 0 /\ state.token.data = EmptyStr
    /\ out' = [out EXCEPT ![r].panicked = TRUE]
    /\ pc' = [pc EXCEPT ![r] = "idle"]
    /\ UNCHANGED <<config, ret, state, buf, rq, agReq, now, issued, lastGrant>>

\* the context of the request goroutine r serves is cancelled (the client
\* went away); ServeHTTP never consults req.Context()
Cancel(r) ==
    /\ pc[r] # "idle"
    /\ ~rq[r].ctxDone
    /\ rq' = [rq EXCEPT ![r].ctxDone = TRUE]
    /\ UNCHANGED <<config, ret, state, buf, pc, out, agReq, now, issued, lastGrant>>

\* time passes
Tick ==
    /\ now < MaxTime
    /\ now' = now + 1
    /\ UNCHANGED <<config, ret, state, buf, pc, rq, out, agReq, issued, lastGrant>>

\* what the concurrent exploration draws from: the plain configuration and
\* the one with the unparsable URL; requests that carry an Authorization
\* header; an accepted answer for each token, and a refusal
ConcurrentConfigs == {cfg \in ServeConfigs : cfg.AuthGrantRequest.Headers = << >>}

ConcurrentHeaders == {h \in IncomingHeaders : S_Authorization \in DOMAIN h}

ConcurrentResponses ==
    {Response(200, BodyNumber), Response(200, BodyNumericString),
     Response(403, BodyForbidden)}

\* in the concurrent exploration no context is cancelled
ConcurrentDone == {FALSE}

Init == InitWith(ConcurrentConfigs)

Next ==
    \/ \E r \in Slots, h \in ConcurrentHeaders, done \in ConcurrentDone : ServeHTTP_Valid(r, h, done)
    \/ \E r \in Slots, h \in ConcurrentHeaders, done \in ConcurrentDone : ServeHTTP_NewRequestError(r, h, done)
    \/ \E r \in Slots, h \in ConcurrentHeaders, done \in ConcurrentDone : ServeHTTP_SendGrant(r, h, done)
    \/ \E r \in Slots : ServeHTTP_DoError(r)
    \/ \E r \in Slots, res \in ConcurrentResponses : ServeHTTP_Rejected(r, res)
    \/ \E r \in Slots, res \in ConcurrentResponses : ServeHTTP_Accepted(r, res)
    \/ \E r \in Slots, w \in Words : StoreWord(r, w)
    \/ \E r \in Slots : ServeHTTP_Forward(r)
    \/ \E r \in Slots : ServeHTTP_Panic(r)
    \/ Tick

\* any number of goroutines serve requests on one instance
Spec == Init /\ [][Next]_vars

\* no request is being served
Quiescent == \A r \in Slots : pc[r] = "idle"

\* the goroutine that serves when requests come one after the other
FirstSlot == {r \in Slots : \A q \in Slots : r <= q}

\* requests one after the other: a request arrives only when the one before
\* it has returned
NextSeq ==
    \/ \E r \in FirstSlot, h \in IncomingHeaders, done \in BOOLEAN : Quiescent /\ ServeHTTP_Valid(r, h, done)
    \/ \E r \in FirstSlot, h \in IncomingHeaders, done \in BOOLEAN : Quiescent /\ ServeHTTP_NewRequestError(r, h, done)
    \/ \E r \in FirstSlot, h \in IncomingHeaders, done \in BOOLEAN : Quiescent /\ ServeHTTP_SendGrant(r, h, done)
    \/ \E r \in Slots : ServeHTTP_DoError(r)
    \/ \E r \in Slots, res \in Responses : ServeHTTP_Rejected(r, res)
    \/ \E r \in Slots, res \in Responses : ServeHTTP_Accepted(r, res)
    \/ \E r \in Slots, w \in Words : StoreWord(r, w)
    \/ \E r \in Slots : ServeHTTP_Forward(r)
    \/ \E r \in Slots : Cancel(r)
    \/ Tick

InitSeq == InitWith(ServeConfigs)

SpecSeq == InitSeq /\ [][NextSeq]_vars

\* construction: New is called on a configuration
InitNew ==
    /\ config \in ConfigSpace
    /\ ret = NotCalled
    /\ RequestVarsInit

CallNew ==
    /\ ret = NotCalled
    /\ ret' = New(config)
    /\ UNCHANGED <<config, state, buf, pc, rq, out, agReq, now, issued, lastGrant>>

SpecNew == InitNew /\ [][CallNew]_vars

----------------------------------------------------------------------------
(* The resolver on its own: New on a configuration whose only flexible     *)
(* value of interest is the value of one header, named "n".                *)

\* longest plaintext that is base64-encoded
MaxPlain == 3

\* longest generated literal and ~direct~ payload
MaxLit == 3

\* all sequences over S of length at most n
SeqsUpTo(S, n) == UNION { [1..k -> S] : k \in 0..n }

\* plaintext bytes: '?' and 'a', and 0xFB and 0xFF, whose encodings use
\* the characters in which the two alphabets differ
PlainBytes == {63, 97, 251, 255}

Plaintexts == SeqsUpTo(PlainBytes, MaxPlain)

\* base64.URLEncoding.EncodeToString: '-' for '+', '_' for '/'
ToURLAlphabet(e) ==
    [i \in 1..Len(e) |-> IF e[i] = 43 THEN 45 ELSE IF e[i] = 47 THEN 95 ELSE e[i]]

\* the Raw encodings: without the trailing '='
WithoutPadding(e) == SubSeq(e, 1, Len(e) - Padding(e))

\* the encodings of a plaintext: standard and URL-safe alphabet, each with
\* and without padding
Base64Forms(p) ==
    { B64Encode(p), WithoutPadding(B64Encode(p)),
      ToURLAlphabet(B64Encode(p)), WithoutPadding(ToURLAlphabet(B64Encode(p))) }

\* "~direct~"
DirectPrefix == Tilde \o S_direct \o Tilde

\* "~base64~direct~"
Base64DirectPrefix == S_base64Prefix \o S_direct \o Tilde

\* the header name "n"
S_n == <<110>>

\* flexible values: short strings over 'a', ' ' and '~'; ~direct~ payloads;
\* base64 encodings; and values with other sources, too few segments or
\* payloads that do not resolve:
\* "~file", "~base64~format", "~base64~direct", "~base64~bogus~v",
\* "~bogus~v", "~env~V", "~file~f", "~env~N", "~file~g", "~base64~env~V",
\* "~base64~direct~aa`", "~base64~file~f"
FlexibleValues ==
    SeqsUpTo({97, 32, 126}, MaxLit)
    \cup { DirectPrefix \o x : x \in SeqsUpTo({97, 32, 126}, MaxLit) }
    \cup UNION { { Base64DirectPrefix \o e : e \in Base64Forms(p) } : p \in Plaintexts }
    \cup { <<126, 102, 105, 108, 101>>,
           <<126, 98, 97, 115, 101, 54, 52, 126, 102, 111, 114, 109, 97, 116>>,
           <<126, 98, 97, 115, 101, 54, 52, 126, 100, 105, 114, 101, 99, 116>>,
           <<126, 98, 97, 115, 101, 54, 52, 126, 98, 111, 103, 117, 115, 126, 118>>,
           <<126, 98, 111, 103, 117, 115, 126, 118>>,
           <<126, 101, 110, 118, 126, 86>>,
           <<126, 102, 105, 108, 101, 126, 102>>,
           <<126, 101, 110, 118, 126, 78>>,
           <<126, 102, 105, 108, 101, 126, 103>>,
           <<126, 98, 97, 115, 101, 54, 52, 126, 101, 110, 118, 126, 86>>,
           <<126, 98, 97, 115, 101, 54, 52, 126, 100, 105, 114, 101, 99, 116, 126, 97, 97, 96>>,
           <<126, 98, 97, 115, 101, 54, 52, 126, 102, 105, 108, 101, 126, 102>> }

InitResolve ==
    /\ config \in { MkConfig(<<104>>, EmptyStr, EmptyStr, EmptyStr,
                             <<[Name |-> S_n, Value |-> v]>>, 0, FALSE) :
                      v \in FlexibleValues }
    /\ ret = NotCalled
    /\ RequestVarsInit

SpecResolve == InitResolve /\ [][CallNew]_vars

----------------------------------------------------------------------------
(* Claims.                                                                  *)

\* a grant response that carries everything the grant needs: status 200, a
\* JSON object, access_token a string, expires_in a number or a numeric string
ProperGrant(res) ==
    /\ res.StatusCode = 200
    /\ res.Body.kind = "object"
    /\ res.Body.access_token.t = "string"
    /\ \/ res.Body.expires_in.t = "number"
       \/ res.Body.expires_in.t = "string" /\ ParseFloat(res.Body.expires_in.s).err = ""

\* goroutine r has served a request to its end
Served(r) == pc[r] = "idle" /\ rq[r] # NoRq

\* C1: fail closed per request. The next handler is called at most once, and
\* only for a request that found the token valid or whose own grant
\* succeeded; a request that needed a grant which did not succeed ends with
\* exactly one error response and no call of the next handler.
C1_FailClosed ==
    \A r \in Slots :
        /\ Len(out[r].next) <= 1
        /\ Len(out[r].next) = 1 => (rq[r].fresh \/ ProperGrant(rq[r].res))
        /\ (Served(r) /\ ~rq[r].fresh /\ ~ProperGrant(rq[r].res))
              => (out[r].next = << >> /\ Len(out[r].rw) = 1)

\* C2: token reuse. Once a grant has been stored, a request that arrives not
\* after the stored expiry makes no grant call and is forwarded with
\* "Bearer <the token of that grant>".
C2_TokenReuse ==
    \A r \in Slots :
        (lastGrant # NoGrant /\ rq[r].fresh) =>
            /\ rq[r].grants = 0
            /\ rq[r].res = NoResponse
            /\ out[r].rw = << >>
            /\ Served(r) =>
                  /\ Len(out[r].next) = 1
                  /\ out[r].next[1][S_Authorization]
                        = <<S_Bearer \o lastGrant.access_token>>

\* C2 witness: a request that arrived inside the validity window of a stored
\* grant has been forwarded without a grant call.
C2_Witness ==
    \E r \in Slots :
        /\ lastGrant # NoGrant /\ rq[r].fresh /\ Served(r)
        /\ rq[r].grants = 0 /\ Len(out[r].next) = 1

\* C3: a grant answer with a status other than 200 is relayed: the caller
\* gets that status and the authorization server's body, and the next
\* handler is not called.
C3_NonOKRelayedVerbatim ==
    \A r \in Slots :
        (Served(r) /\ rq[r].res.StatusCode \notin {0, 200}) =>
            /\ out[r].next = << >>
            /\ out[r].rw = <<[status |-> rq[r].res.StatusCode,
                              body |-> rq[r].res.Body.raw]>>

\* a 200 answer whose body is not a JSON object with a string access_token
BadTokenBody(res) ==
    /\ res.StatusCode = 200
    /\ res.Body.kind # "object" \/ res.Body.access_token.t # "string"

\* C4: a 200 grant answer that is not parseable, or has no string
\* access_token, ends the request with a 500 and without calling the next
\* handler, and the cached token and expiry stay as they were: no step taken
\* while the grant is under way changes them, and the step that handles the
\* answer neither stores nor issues a store.
C4_BadTokenBodyRejected ==
    [][\A r \in Slots :
          /\ ((pc[r] = "granting" \/ pc'[r] = "granting") /\ pc'[r] # "forward")
                => (state' = state /\ buf' = buf)
          /\ (pc[r] = "granting" /\ rq'[r].res # rq[r].res /\ BadTokenBody(rq'[r].res))
                => /\ pc'[r] = "idle"
                   /\ out'[r].next = << >>
                   /\ Len(out'[r].rw) = 1
                   /\ out'[r].rw[1].status = 500
                   /\ state' = state
                   /\ buf' = buf]_vars

\* C4 witness: with a token cached, a later grant was answered with such a
\* body and the request ended with a 500; the cached token is still there.
C4_Witness ==
    \E r \in Slots :
        /\ Served(r) /\ BadTokenBody(rq[r].res)
        /\ out[r].next = << >> /\ Len(out[r].rw) = 1 /\ out[r].rw[1].status = 500
        /\ lastGrant # NoGrant
        /\ state.token = StringHeader(lastGrant.access_token)

\* C5: expires_in is required. A 200 answer with a string access_token whose
\* expires_in is missing, or neither a number nor a numeric string, is
\* rejected: nothing is stored, the next handler is not called, a 500 is
\* served.
C5_ExpiresInRequired ==
    \A r \in Slots :
        (/\ rq[r].res.StatusCode = 200
         /\ rq[r].res.Body.kind = "object"
         /\ rq[r].res.Body.access_token.t = "string"
         /\ ~ProperGrant(rq[r].res)) =>
            /\ pc[r] = "idle"
            /\ buf[r].pend = {}
            /\ out[r].next = << >>
            /\ Len(out[r].rw) = 1 /\ out[r].rw[1].status = 500

\* C6: after every accepted grant the stored expiry is at least one second
\* later than the instant at which the grant completed.
C6_ExpiryOneSecondAhead ==
    \A r \in Slots :
        buf[r].pend # {} => buf[r].expires >= lastGrant.at + TicksPerSec

\* C7: every request that reaches the next handler carries "Bearer <t>" for
\* an access token t that an accepted grant response has returned.
C7_ForwardedTokenIssued ==
    \A r \in Slots :
        /\ ~out[r].panicked
        /\ \A i \in 1..Len(out[r].next) :
              \E tok \in issued : out[r].next[i][S_Authorization] = <<S_Bearer \o tok>>

\* C8: a forwarded request has its Authorization header set to exactly
\* "Bearer <cached token>", whatever the caller supplied, and is otherwise
\* the request that arrived.
C8_AuthorizationOverwritten ==
    \A r \in Slots :
        (Served(r) /\ Len(out[r].next) = 1) =>
            /\ state.token.len = Len(state.token.data)
            /\ DOMAIN out[r].next[1] = DOMAIN rq[r].incoming \cup {S_Authorization}
            /\ \A k \in DOMAIN out[r].next[1] :
                  out[r].next[1][k] = IF k = S_Authorization
                                      THEN <<S_Bearer \o state.token.data>>
                                      ELSE rq[r].incoming[k]

\* C8 witness: a request that came with its own Authorization header has
\* been forwarded.
C8_Witness ==
    \E r \in Slots :
        /\ Served(r) /\ Len(out[r].next) = 1
        /\ S_Authorization \in DOMAIN rq[r].incoming
        /\ state.token.data # EmptyStr

\* some flexible value of the configuration does not resolve
SomeFieldUnresolved(cfg) ==
    \/ fromFlexibleValue(cfg.AuthGrantRequest.URL).err # ""
    \/ fromFlexibleValue(cfg.AuthGrantRequest.User).err # ""
    \/ fromFlexibleValue(cfg.AuthGrantRequest.Pass).err # ""
    \/ \E i \in 1..Len(cfg.AuthGrantRequest.Headers) :
          \/ fromFlexibleValue(cfg.AuthGrantRequest.Headers[i].Name).err # ""
          \/ fromFlexibleValue(cfg.AuthGrantRequest.Headers[i].Value).err # ""

\* C9: construction fails closed. If any flexible value (url, user, pass, a
\* header name or value) does not resolve, or the url resolves to "", New
\* returns an error and no instance, whatever the other fields are.
C9_ConstructionFailsClosed ==
    (/\ ret # NotCalled
     /\ \/ SomeFieldUnresolved(config)
        \/ fromFlexibleValue(config.AuthGrantRequest.URL).val = EmptyStr)
        => (ret.err # "" /\ ret.handler = << >>)

\* the Authorization entries of the explicit header list, by resolved name
\* (header names are case-insensitive)
ManualAuthorization(cfg) ==
    { fromFlexibleValue(cfg.AuthGrantRequest.Headers[i].Value).val :
        i \in { j \in 1..Len(cfg.AuthGrantRequest.Headers) :
                  CanonicalMIMEHeaderKey(
                      fromFlexibleValue(cfg.AuthGrantRequest.Headers[j].Name).val)
                  = S_Authorization } }

\* C10: the Authorization header of every grant request. With a non-empty
\* resolved user it is "Basic base64(enc(user):enc(pass))", overriding any
\* manual Authorization entry; with an empty user no Basic header is made and
\* a manual Authorization entry is sent as it is.
C10_GrantAuthorization ==
    agReq # NoGrantRequest =>
        IF fromFlexibleValue(config.AuthGrantRequest.User).val # EmptyStr
        THEN /\ S_Authorization \in DOMAIN agReq.Header
             /\ agReq.Header[S_Authorization] =
                   <<S_Basic \o B64Encode(
                        queryEncode(fromFlexibleValue(config.AuthGrantRequest.User).val,
                                    config.AuthGrantRequest.BasicAuthSkipEncoding)
                        \o <<58>>
                        \o queryEncode(fromFlexibleValue(config.AuthGrantRequest.Pass).val,
                                       config.AuthGrantRequest.BasicAuthSkipEncoding))>>
        ELSE IF ManualAuthorization(config) = {}
             THEN S_Authorization \notin DOMAIN agReq.Header
             ELSE /\ S_Authorization \in DOMAIN agReq.Header
                  /\ \E v \in ManualAuthorization(config) :
                        agReq.Header[S_Authorization] = <<v>>

\* the value of the header "n" of the configuration New was called on, and
\* what New made of it
FieldValue == config.AuthGrantRequest.Headers[1].Value

Resolves == ret # NotCalled /\ ret.err = "" /\ Len(ret.handler) = 1

ResolvedValue == ret.handler[1].authGrantHeaders[S_n]

\* C11: a ~base64~ value decodes to the same plaintext whatever the padding
\* and the alphabet: each of the four encodings of a plaintext (standard or
\* URL-safe alphabet, with or without padding) resolves to that plaintext.
C11_Base64AnyForm ==
    \A p \in Plaintexts : \A e \in Base64Forms(p) :
        (ret # NotCalled /\ FieldValue = Base64DirectPrefix \o e)
            => (Resolves /\ ResolvedValue = p)

\* C12: literal and escape round trip. A value that does not start with "~"
\* resolves to itself, and "~direct~" followed by any s resolves to s.
C12_LiteralRoundTrip ==
    ret # NotCalled =>
        /\ ~HasPrefix(FieldValue, Tilde) => (Resolves /\ ResolvedValue = FieldValue)
        /\ HasPrefix(FieldValue, DirectPrefix)
              => (Resolves /\ ResolvedValue
                                = SubSeq(FieldValue, Len(DirectPrefix) + 1, Len(FieldValue)))

\* C12 witness: "~direct~~a" has been resolved, to "~a".
C12_Witness ==
    /\ Resolves
    /\ FieldValue = DirectPrefix \o <<126, 97>>
    /\ ResolvedValue = <<126, 97>>

\* the number of "~" in s
RECURSIVE CountTildes(_)
CountTildes(s) ==
    IF Len(s) = 0 THEN 0
    ELSE (IF s[1] = 126 THEN 1 ELSE 0) + CountTildes(Tail(s))

\* the text between the k-th "~" of s and the next one (or the end of s)
RECURSIVE SegmentAfter(_, _)
SegmentAfter(s, k) ==
    IF Len(s) = 0 THEN << >>
    ELSE IF k = 0 THEN (IF s[1] = 126 THEN << >> ELSE <<s[1]>> \o SegmentAfter(Tail(s), 0))
    ELSE SegmentAfter(Tail(s), IF s[1] = 126 THEN k - 1 ELSE k)

\* the "~" a value needs before its payload: 2, and 3 under "~base64~"
TildesRequired(v) == IF HasPrefix(v, S_base64Prefix) THEN 3 ELSE 2

\* C19: a value that starts with "~" and has fewer segments than required
\* fails as malformed; one with enough segments whose source segment is not
\* file, env or direct fails with an unknown source. No instance (hence no
\* value) is returned and the error names the field.
C19_IllFormedRejected ==
    (ret # NotCalled /\ HasPrefix(FieldValue, Tilde)) =>
        /\ CountTildes(FieldValue) < TildesRequired(FieldValue)
              => /\ ret.err = "invalid flexible fieldValue format"
                 /\ ret.field = "header.value"
                 /\ ret.handler = << >>
        /\ (/\ CountTildes(FieldValue) >= TildesRequired(FieldValue)
            /\ SegmentAfter(FieldValue, TildesRequired(FieldValue) - 1)
                  \notin {S_file, S_env, S_direct})
              => /\ ret.err = "unknown source"
                 /\ ret.field = "header.value"
                 /\ ret.handler = << >>

\* C19 witness: both kinds of rejection are among the values tried; here
\* "~base64~bogus~v" has been refused for its source.
C19_Witness ==
    /\ ret # NotCalled
    /\ FieldValue = S_base64Prefix \o <<98, 111, 103, 117, 115, 126, 118>>
    /\ ret.err = "unknown source"

\* floor of an expires_in given as a number or as a numeric string, in seconds
FloorSeconds(expires_in) ==
    IF expires_in.t = "number" THEN expires_in.h \div 2
    ELSE ParseFloat(expires_in.s).h \div 2

\* the expiry of a grant that completed at instant t with the given
\* expires_in on an instance configured with margin m:
\* trunc_to_second(t) + max(1, floor(e) - max(1, m)) seconds
ExpiryOf(expires_in, m, t) ==
    (t - (t % TicksPerSec))
    + TicksPerSec * (IF FloorSeconds(expires_in) - (IF m > 1 THEN m ELSE 1) > 1
                     THEN FloorSeconds(expires_in) - (IF m > 1 THEN m ELSE 1)
                     ELSE 1)

\* all stores of lines 171-172 issued so far have reached memory
StoresDone == \A r \in Slots : buf[r].pend = {}

\* C13: token and expiry are paired. Once a grant has been stored and no
\* store is under way, the cached token and the cached expiry are those of
\* one grant response G: the token is G's access_token and the expiry is the
\* one computed for G at some instant up to now.
C13_TokenExpiryPaired ==
    (issued # {} /\ StoresDone) =>
        \E G \in Responses :
            /\ ProperGrant(G)
            /\ G.Body.access_token.s \in issued
            /\ state.token = StringHeader(G.Body.access_token.s)
            /\ \E t \in 0..now :
                  state.expires = ExpiryOf(G.Body.expires_in,
                                           config.AuthGrantRequest.ExpiresMarginSeconds, t)

\* the request goroutine r serves went into the grant branch of line 113: it
\* sent a grant request, or failed to build one
EnteredGrant(r) ==
    \/ rq[r].grants = 1
    \/ out[r].rw = <<serveInternalError(MsgNewRequest)>>

\* C14: renewal is triggered exactly by staleness. A request goes for a grant
\* if and only if it arrives strictly after the cached expiry; before any
\* grant has been stored every request does; and a request whose grant is
\* accepted is forwarded with the new token, which with its expiry has
\* replaced the cached ones.
C14_RenewalByStaleness ==
    \A r \in Slots :
        rq[r] # NoRq =>
            /\ EnteredGrant(r) <=> ~rq[r].fresh
            /\ lastGrant = NoGrant => EnteredGrant(r)
            /\ (Served(r) /\ Len(out[r].next) = 1 /\ rq[r].grants = 1) =>
                  /\ state.token = StringHeader(rq[r].res.Body.access_token.s)
                  /\ state.expires = GrantOutcome(rq[r].res,
                                                  c.authGrantExpiresMarginSeconds,
                                                  lastGrant.at).expires
                  /\ out[r].next[1][S_Authorization]
                        = <<S_Bearer \o rq[r].res.Body.access_token.s>>

\* C14 witness: a request that arrived at exactly the cached expiry has been
\* forwarded without a grant.
C14_Witness ==
    \E r \in Slots :
        /\ Served(r) /\ rq[r].fresh /\ rq[r].grants = 0
        /\ Len(out[r].next) = 1
        /\ lastGrant # NoGrant /\ now = state.expires

\* C15: expiry computation. After a grant with a number or numeric string
\* expires_in = e has been stored, on an instance configured with margin m,
\* the token is the access_token and the expiry is
\* trunc_to_second(t) + max(1, floor(e) - max(1, m)) seconds, t being the
\* instant the grant completed.
C15_ExpiryComputation ==
    (lastGrant # NoGrant /\ ProperGrant(Response(200,
          Body(<< >>, "object", JString(lastGrant.access_token), lastGrant.expires_in)))
     /\ StoresDone) =>
        /\ state.token = StringHeader(lastGrant.access_token)
        /\ state.expires = ExpiryOf(lastGrant.expires_in,
                                    config.AuthGrantRequest.ExpiresMarginSeconds,
                                    lastGrant.at)

\* C16: grants are not deduplicated and the last writer wins. A goroutine
\* that found the token stale sends its own grant request whatever the others
\* do, and when the stores of a goroutine are complete, the cached token and
\* expiry are the ones it wrote.
C16_LastWriterWins ==
    [][\A r \in Slots :
          /\ (pc[r] = "idle" /\ pc'[r] # "idle" /\ ~rq'[r].fresh) => pc'[r] = "granting"
          /\ (buf[r].pend # {} /\ buf'[r].pend = {})
                => (state'.token = buf[r].token /\ state'.expires = buf[r].expires)]_vars

\* C17: no retries, renewal on demand. A request makes at most one grant
\* call; a grant request is sent only in the step in which a request arrives;
\* a failed grant ends the request at once with one error response, no
\* forward and the token state as stale as it was, so that the next request
\* goes for a grant again; an accepted grant gets its request forwarded.
C17_NoRetries ==
    [][/\ \A r \in Slots : rq'[r].grants <= 1
       /\ agReq' # agReq =>
             \E r \in Slots : pc[r] = "idle" /\ pc'[r] = "granting" /\ rq'[r].grants = 1
       /\ \A r \in Slots :
             /\ (pc[r] = "granting" /\ rq'[r].res.StatusCode \notin {0, 200})
                   => pc'[r] = "idle"
             /\ (pc[r] = "granting" /\ pc'[r] = "idle")
                   => /\ Len(out'[r].rw) = 1
                      /\ out'[r].rw[1].status >= 400
                      /\ out'[r].next = << >>
                      /\ state' = state /\ buf' = buf
                      /\ now > state'.expires
             /\ (pc[r] = "forward" /\ pc'[r] = "idle")
                   => (Len(out'[r].next) = 1 /\ out'[r].rw = << >>)]_vars

\* C17 witness: a grant has failed; its request ended with one error
\* response and the token is still stale.
C17_Witness ==
    \E r \in Slots :
        /\ Served(r) /\ rq[r].grants = 1
        /\ Len(out[r].rw) = 1 /\ out[r].next = << >>
        /\ now > state.expires

\* C18: frame of request handling. No step changes the configuration or the
\* resolved fields of the instance; the token state changes only by the
\* stores of a goroutine whose grant was accepted; a request served from the
\* valid cache and a request whose grant fails change nothing of it.
C18_Frame ==
    [][/\ config' = config
       /\ ret' = ret
       /\ state' # state =>
             \E r \in Slots :
                 /\ pc[r] = "forward" /\ rq[r].grants = 1
                 /\ rq[r].res.StatusCode = 200
                 /\ rq[r].res.Body.access_token.t = "string"
                 /\ buf[r].pend # {}
       /\ \A r \in Slots :
             /\ (pc[r] # "idle" /\ rq[r].grants = 0) => (state' = state /\ buf' = buf)
             /\ (pc[r] = "granting" /\ pc'[r] = "idle") => (state' = state /\ buf' = buf)]_vars

\* C18 witness: after a stored grant a request has been served from the
\* cache, and the instance still has its construction-time fields.
C18_Witness ==
    \E r \in Slots :
        /\ Served(r) /\ rq[r].fresh /\ Len(out[r].next) = 1
        /\ lastGrant # NoGrant
        /\ ret = New(config)

\* C20: cancellation independence. While the grant of a request whose
\* context is cancelled is under way, the authorization server's answer can
\* still be received and accepted; and when such a request has had its grant
\* accepted, the token and expiry of that grant are cached.
C20_CancellationIndependence ==
    \A r \in Slots :
        /\ (pc[r] = "granting" /\ rq[r].ctxDone)
              => ENABLED (\E res \in Responses : ServeHTTP_Accepted(r, res))
        /\ (rq[r].ctxDone /\ rq[r].grants = 1 /\ rq[r].res.StatusCode = 200
            /\ pc[r] = "idle" /\ out[r].rw = << >>)
              => /\ state.token = StringHeader(rq[r].res.Body.access_token.s)
                 /\ state.expires = GrantOutcome(rq[r].res,
                                                 c.authGrantExpiresMarginSeconds,
                                                 lastGrant.at).expires
                 /\ Len(out[r].next) = 1

\* C20 witness: a request whose context was cancelled no later than during
\* its grant has had the grant accepted and cached, and a later request has
\* been served from that cache.
C20_Witness ==
    \E r \in Slots :
        /\ rq[r].ctxDone /\ rq[r].grants = 1 /\ Served(r)
        /\ rq[r].res.StatusCode = 200 /\ out[r].rw = << >>
        /\ state.token = StringHeader(rq[r].res.Body.access_token.s)
        /\ now <= state.expires

\* C21: no overflow of the expiry arithmetic. Whatever the magnitude of
\* expires_in, once a grant has been stored the cached expiry is strictly
\* later than the instant the grant completed, so that a request arriving
\* right after it (the clock not having moved) finds the token valid at
\* line 113.
C21_ExpiryAfterGrant ==
    (lastGrant # NoGrant /\ StoresDone) =>
        /\ state.expires > lastGrant.at
        /\ now = lastGrant.at => ~After(now, state.expires)

====
